---- MODULE Spec2Model ----
(***************************************************************************)
(* svn2git_ignore.py: collect svn:ignore properties of a working copy and  *)
(* render them as a .gitignore file.                                       *)
(*                                                                         *)
(* Text is modelled as a sequence of one-character strings, so that the    *)
(* string operations of the program (strip, splitlines, replace, the       *)
(* header regular expression, the path functions, fnmatch) are computed    *)
(* the way the program computes them.                                      *)
(***************************************************************************)
EXTENDS Integers, Sequences, FiniteSets, TLC

NL == "\n"
SP == " "
SEP == "/"
BSL == "\\"
HASH == "#"
DOT == "."
DASH == "-"

\* the characters that occur in the inputs of the model, in code-point order
Alphabet == <<NL, SP, "!", HASH, "*", DASH, DOT, SEP, "?", "[", BSL, "]", "a", "b", "c", "o", "r", "x">>

Ord(c) == CHOOSE i \in 1..Len(Alphabet) : Alphabet[i] = c

\* None of Python, as a text that is no text of characters
None == <<"None">>

(***************************************************************************)
(* str methods                                                             *)
(***************************************************************************)
IsSpace(c) == c \in {NL, SP}

RECURSIVE LStrip(_)
LStrip(s) == IF s # <<>> /\ IsSpace(Head(s)) THEN LStrip(Tail(s)) ELSE s

RECURSIVE RStrip(_)
RStrip(s) == IF s # <<>> /\ IsSpace(s[Len(s)]) THEN RStrip(SubSeq(s, 1, Len(s) - 1)) ELSE s

Strip(s) == RStrip(LStrip(s))

StartsWith(s, p) == Len(p) <= Len(s) /\ SubSeq(s, 1, Len(p)) = p

RECURSIVE Count(_, _)
Count(s, c) == IF s = <<>> THEN 0 ELSE (IF Head(s) = c THEN 1 ELSE 0) + Count(Tail(s), c)

\* s.split(c): the pieces between the occurrences of c, empty pieces kept
RECURSIVE SplitAcc(_, _, _)
SplitAcc(s, c, cur) ==
    IF s = <<>> THEN <<cur>>
    ELSE IF Head(s) = c THEN <<cur>> \o SplitAcc(Tail(s), c, <<>>)
    ELSE SplitAcc(Tail(s), c, Append(cur, Head(s)))

Split(s, c) == SplitAcc(s, c, <<>>)

\* s.splitlines(): as split on the line break, without a last empty piece
RECURSIVE SplitLinesAcc(_, _)
SplitLinesAcc(s, cur) ==
    IF s = <<>> THEN (IF cur = <<>> THEN <<>> ELSE <<cur>>)
    ELSE IF Head(s) = NL THEN <<cur>> \o SplitLinesAcc(Tail(s), <<>>)
    ELSE SplitLinesAcc(Tail(s), Append(cur, Head(s)))

SplitLines(s) == SplitLinesAcc(s, <<>>)

\* sep.join(parts)
RECURSIVE Join(_, _)
Join(parts, sep) ==
    IF parts = <<>> THEN <<>>
    ELSE IF Len(parts) = 1 THEN parts[1]
    ELSE parts[1] \o sep \o Join(Tail(parts), sep)

\* s.replace(old, new): non-overlapping occurrences, left to right, one pass
RECURSIVE Replace(_, _, _)
Replace(s, old, new) ==
    IF s = <<>> THEN <<>>
    ELSE IF StartsWith(s, old) THEN new \o Replace(SubSeq(s, Len(old) + 1, Len(s)), old, new)
    ELSE <<Head(s)>> \o Replace(Tail(s), old, new)

\* s.rfind(c), 1-based, 0 when absent
RECURSIVE RFind(_, _)
RFind(s, c) ==
    IF s = <<>> THEN 0
    ELSE IF s[Len(s)] = c THEN Len(s)
    ELSE RFind(SubSeq(s, 1, Len(s) - 1), c)

RECURSIVE RStripChar(_, _)
RStripChar(s, c) == IF s # <<>> /\ s[Len(s)] = c THEN RStripChar(SubSeq(s, 1, Len(s) - 1), c) ELSE s

(***************************************************************************)
(* os.path (posixpath; os.sep is "/")                                      *)
(***************************************************************************)
Dirname(p) ==
    LET head == SubSeq(p, 1, RFind(p, SEP))
    IN IF head # <<>> /\ Count(head, SEP) # Len(head) THEN RStripChar(head, SEP) ELSE head

Basename(p) == SubSeq(p, RFind(p, SEP) + 1, Len(p))

RECURSIVE NormComps(_, _, _)
NormComps(comps, isAbs, acc) ==
    IF comps = <<>> THEN acc
    ELSE LET c == Head(comps) IN
         IF c = <<>> \/ c = <<DOT>> THEN NormComps(Tail(comps), isAbs, acc)
         ELSE IF c # <<DOT, DOT>> \/ (~isAbs /\ acc = <<>>) \/ (acc # <<>> /\ acc[Len(acc)] = <<DOT, DOT>>)
              THEN NormComps(Tail(comps), isAbs, Append(acc, c))
         ELSE IF acc # <<>> THEN NormComps(Tail(comps), isAbs, SubSeq(acc, 1, Len(acc) - 1))
         ELSE NormComps(Tail(comps), isAbs, acc)

Normpath(p) ==
    IF p = <<>> THEN <<DOT>>
    ELSE LET slashes == IF ~StartsWith(p, <<SEP>>) THEN 0
                        ELSE IF StartsWith(p, <<SEP, SEP>>) /\ ~StartsWith(p, <<SEP, SEP, SEP>>) THEN 2
                        ELSE 1
             body == Join(NormComps(Split(p, SEP), slashes > 0, <<>>), <<SEP>>)
             res == [i \in 1..slashes |-> SEP] \o body
         IN IF res = <<>> THEN <<DOT>> ELSE res

\* the working directory of the process
Cwd == <<SEP, "r">>

Abspath(p) ==
    IF StartsWith(p, <<SEP>>) THEN Normpath(p)
    ELSE Normpath(IF Cwd[Len(Cwd)] = SEP THEN Cwd \o p ELSE Cwd \o <<SEP>> \o p)

NonEmpty(parts) == SelectSeq(parts, LAMBDA x : x # <<>>)

RECURSIVE CommonLen(_, _)
CommonLen(a, b) ==
    IF a = <<>> \/ b = <<>> \/ Head(a) # Head(b) THEN 0 ELSE 1 + CommonLen(Tail(a), Tail(b))

Relpath(p, start) ==
    LET start_list == NonEmpty(Split(Abspath(start), SEP))
        path_list == NonEmpty(Split(Abspath(p), SEP))
        i == CommonLen(start_list, path_list)
        rel_list == [k \in 1..(Len(start_list) - i) |-> <<DOT, DOT>>] \o SubSeq(path_list, i + 1, Len(path_list))
    IN IF rel_list = <<>> THEN <<DOT>> ELSE Join(rel_list, <<SEP>>)

(***************************************************************************)
(* fnmatch.fnmatch(name, pat): *, ?, [seq], [!seq], whole-name match       *)
(***************************************************************************)
\* index of the "]" closing the class opened just before position i, or 0
RECURSIVE FindClose(_, _)
FindClose(pat, j) ==
    IF j > Len(pat) THEN 0 ELSE IF pat[j] = "]" THEN j ELSE FindClose(pat, j + 1)

ClassEnd(pat, i) ==
    LET j1 == IF i <= Len(pat) /\ pat[i] = "!" THEN i + 1 ELSE i
        j2 == IF j1 <= Len(pat) /\ pat[j1] = "]" THEN j1 + 1 ELSE j1
    IN FindClose(pat, j2)

RECURSIVE ClassSet(_)
ClassSet(stuff) ==
    IF stuff = <<>> THEN {}
    ELSE IF Len(stuff) >= 3 /\ stuff[2] = DASH
         THEN {Alphabet[k] : k \in Ord(stuff[1])..Ord(stuff[3])} \cup ClassSet(SubSeq(stuff, 4, Len(stuff)))
    ELSE {Head(stuff)} \cup ClassSet(Tail(stuff))

InClass(c, stuff) ==
    IF stuff # <<>> /\ Head(stuff) = "!" THEN c \notin ClassSet(Tail(stuff)) ELSE c \in ClassSet(stuff)

RECURSIVE Fnmatch(_, _)
Fnmatch(name, pat) ==
    IF pat = <<>> THEN name = <<>>
    ELSE LET c == Head(pat) IN
         IF c = "*" THEN Fnmatch(name, Tail(pat)) \/ (name # <<>> /\ Fnmatch(Tail(name), pat))
         ELSE IF c = "?" THEN name # <<>> /\ Fnmatch(Tail(name), Tail(pat))
         ELSE IF c = "[" /\ ClassEnd(pat, 2) # 0
              THEN LET j == ClassEnd(pat, 2) IN
                   /\ name # <<>>
                   /\ InClass(Head(name), SubSeq(pat, 2, j - 1))
                   /\ Fnmatch(Tail(name), SubSeq(pat, j + 1, Len(pat)))
         ELSE name # <<>> /\ Head(name) = c /\ Fnmatch(Tail(name), Tail(pat))

(***************************************************************************)
(* dict of Python: insertion-ordered, as a sequence of [k, v] records      *)
(***************************************************************************)
DictKeys(dict) == [i \in 1..Len(dict) |-> dict[i].k]

DictHas(dict, key) == \E i \in 1..Len(dict) : dict[i].k = key

DictGet(dict, key) == dict[CHOOSE i \in 1..Len(dict) : dict[i].k = key].v

\* dict[key] = val: a key already present keeps its place
DictSet(dict, key, val) ==
    IF DictHas(dict, key)
    THEN [i \in 1..Len(dict) |-> IF dict[i].k = key THEN [k |-> key, v |-> val] ELSE dict[i]]
    ELSE Append(dict, [k |-> key, v |-> val])

(***************************************************************************)
(* get_svn_ignore: the point query                                         *)
(***************************************************************************)
\* out is the stdout of "svn propget svn:ignore path", or None when svn fails
get_svn_ignore(out) ==
    IF out = None THEN None
    ELSE IF Strip(out) # <<>> THEN Strip(out) ELSE None

(***************************************************************************)
(* get_all_svn_ignores: the bulk query and its parser                      *)
(***************************************************************************)
\* re.compile(r'^(.*) - (.+)$'): the start of the separator " - " chosen by
\* the greedy first group, i.e. the last one followed by at least one
\* character; 0 when the line does not match
RECURSIVE HeaderSplitFrom(_, _)
HeaderSplitFrom(line, i) ==
    IF i < 1 THEN 0
    ELSE IF SubSeq(line, i, i + 2) = <<SP, DASH, SP>> THEN i
    ELSE HeaderSplitFrom(line, i - 1)

dir_line_pattern(line) == HeaderSplitFrom(line, Len(line) - 3)

\* "if current_dir and current_ignores: ignores[current_dir] = ..."
SaveDir(ignores, current_dir, current_ignores) ==
    IF current_dir # None /\ current_dir # <<>> /\ current_ignores # <<>>
    THEN DictSet(ignores, current_dir, Strip(Join(current_ignores, <<NL>>)))
    ELSE ignores

RECURSIVE ParseLines(_, _, _, _)
ParseLines(lines, ignores, current_dir, current_ignores) ==
    IF lines = <<>> THEN SaveDir(ignores, current_dir, current_ignores)
    ELSE LET line == Head(lines)
             m == dir_line_pattern(line)
         IN IF Strip(line) = <<>> THEN ParseLines(Tail(lines), ignores, current_dir, current_ignores)
            ELSE IF m # 0
                 THEN ParseLines(Tail(lines),
                                 SaveDir(ignores, current_dir, current_ignores),
                                 Abspath(Strip(SubSeq(line, 1, m - 1))),
                                 <<Strip(SubSeq(line, m + 3, Len(line)))>>)
            ELSE IF current_dir # None
                 THEN ParseLines(Tail(lines), ignores, current_dir, Append(current_ignores, Strip(line)))
            ELSE ParseLines(Tail(lines), ignores, current_dir, current_ignores)

\* out is the stdout of "svn propget svn:ignore -R base_path", or None when svn fails
get_all_svn_ignores(out) ==
    IF out = None THEN <<>>
    ELSE ParseLines(SplitLines(out), <<>>, None, <<>>)

(***************************************************************************)
(* process_directory, recursive branch                                     *)
(***************************************************************************)
SepCount(d) == Count(d, SEP)

\* sorted(keys, key=lambda d: d.count(os.sep)): stable
RECURSIVE InsertByKey(_, _)
InsertByKey(sorted, x) ==
    IF sorted = <<>> THEN <<x>>
    ELSE IF SepCount(x) < SepCount(Head(sorted)) THEN <<x>> \o sorted
    ELSE <<Head(sorted)>> \o InsertByKey(Tail(sorted), x)

RECURSIVE SortedBy(_)
SortedBy(s) ==
    IF s = <<>> THEN <<>>
    ELSE InsertByKey(SortedBy(SubSeq(s, 1, Len(s) - 1)), s[Len(s)])

sorted_dirs_of(ignores) == SortedBy(DictKeys(ignores))

rel_path_of(d, base_path) == Relpath(d, base_path)

depth_of(rel_path) == IF rel_path = <<DOT>> THEN 0 ELSE Count(rel_path, SEP) + 1

\* the depth test off by one: a directory at the limit is dropped as well
depth_excluded_at_limit(maxd, depth) == maxd > 0 /\ depth >= maxd

depth_excluded(maxd, depth) == maxd > 0 /\ depth > maxd

parent_patterns(value) ==
    SelectSeq([i \in 1..Len(SplitLines(value)) |-> Strip(SplitLines(value)[i])], LAMBDA p : p # <<>>)

matches_any(name, pats) == \E i \in 1..Len(pats) : Fnmatch(name, pats[i])

\* "if ignore_config:"
config_present(ignore_config) == ignore_config # None /\ ignore_config # <<>>

\* the ancestor test with the immediate parent only, no walk up to the root
skip_by_parent_only(d, parent, base_path, ignores) ==
    IF ~(parent # <<>> /\ parent # d /\ StartsWith(parent, base_path)) THEN None
    ELSE IF DictHas(ignores, parent) /\ matches_any(Basename(d), parent_patterns(DictGet(ignores, parent)))
         THEN parent
    ELSE None

\* the while loop over the ancestors of d: the ancestor whose patterns match
\* the base name of d (skip = True), or None (skip = False)
RECURSIVE skip_by(_, _, _, _)
skip_by(d, parent, base_path, ignores) ==
    IF ~(parent # <<>> /\ parent # d /\ StartsWith(parent, base_path)) THEN None
    ELSE IF DictHas(ignores, parent) /\ matches_any(Basename(d), parent_patterns(DictGet(ignores, parent)))
         THEN parent
    ELSE IF Dirname(parent) = parent THEN None
    ELSE skip_by(d, Dirname(parent), base_path, ignores)

(***************************************************************************)
(* convert_to_gitignore                                                    *)
(***************************************************************************)
\* the text "目录的忽略规则" that ends a directory header, as one symbol
HeaderSuffix == "RULES"

norm_path_of(p) == IF p # <<DOT>> THEN Replace(p, <<SEP>>, <<SEP>>) ELSE <<DOT>>

header_line(norm_path) == <<NL, HASH, SP>> \o norm_path \o <<SP, HeaderSuffix>>

combined(norm_path, pattern) ==
    Replace(Replace(norm_path \o <<SEP>> \o pattern, <<BSL>>, <<SEP>>), <<SEP, SEP>>, <<SEP>>)

pattern_skipped(pattern) == pattern = <<>> \/ Head(pattern) = HASH

RECURSIVE config_lines(_, _)
config_lines(norm_path, lines) ==
    IF lines = <<>> THEN <<>>
    ELSE LET pattern == Strip(Head(lines)) IN
         IF pattern_skipped(pattern) THEN config_lines(norm_path, Tail(lines))
         ELSE IF norm_path = <<DOT>> THEN <<pattern>> \o config_lines(norm_path, Tail(lines))
         ELSE <<combined(norm_path, pattern)>> \o config_lines(norm_path, Tail(lines))

RECURSIVE gitignore_content(_)
gitignore_content(ignore_configs) ==
    IF ignore_configs = <<>> THEN <<>>
    ELSE LET norm_path == norm_path_of(Head(ignore_configs)[1])
             config == Head(ignore_configs)[2]
         IN (IF norm_path # <<DOT>> THEN <<header_line(norm_path)>> ELSE <<>>)
            \o config_lines(norm_path, SplitLines(config))
            \o gitignore_content(Tail(ignore_configs))

convert_to_gitignore(ignore_configs) == Join(gitignore_content(ignore_configs), <<NL>>)

(***************************************************************************)
(* The working copy and the svn command line tool                          *)
(***************************************************************************)
\* largest --max-depth tried
MaxDepthArg == 2

\* the directories of the working copy, relative to its root, in the order
\* in which svn lists them
Dirs == << <<DOT>>, <<"a">>, <<"a", SEP, "b">>, <<"a", SEP, "b", SEP, "c">>, <<"b">> >>

DirIdx == 1..Len(Dirs)

\* the svn:ignore values a directory may carry; None: the property is unset
Values == { None, <<>>, <<SP>>, <<"b">>, <<"[", "!", "a", "]", NL, HASH, "x", NL>> }

Worlds == [DirIdx -> Values]

NoWorld == [i \in DirIdx |-> None]

\* the path arguments tried: the root of the working copy, absolute and relative
PathArgs == { <<SEP, "r">>, <<DOT>> }

\* the name under which svn lists directory i when started on path p
SvnName(p, i) ==
    IF Dirs[i] = <<DOT>> THEN p
    ELSE IF p = <<DOT>> THEN Dirs[i]
    ELSE p \o <<SEP>> \o Dirs[i]

\* stdout of "svn propget svn:ignore -R p": "name - value" per directory
\* that carries the property
RECURSIVE SvnPropgetRFrom(_, _, _)
SvnPropgetRFrom(w, p, i) ==
    IF i > Len(Dirs) THEN <<>>
    ELSE (IF w[i] = None THEN <<>> ELSE SvnName(p, i) \o <<SP, DASH, SP>> \o w[i] \o <<NL>>)
         \o SvnPropgetRFrom(w, p, i + 1)

SvnPropgetR(w, p) == SvnPropgetRFrom(w, p, 1)

\* stdout of "svn propget svn:ignore p" for the root: empty when the
\* property is unset
SvnPropget(w) == IF w[1] = None THEN <<>> ELSE w[1] \o <<NL>>

\* the contents the output file may have before the run; None: no such file
OldFiles == { None, <<"o", NL>> }

(***************************************************************************)
(* The run of "convert"                                                    *)
(***************************************************************************)
VARIABLES pc, path, recursive, max_depth, wc, stdout, all_ignores, sorted_dirs, idx,
          seen, results, file, file0, exit_code, errors, queries, mapping

vars == <<pc, path, recursive, max_depth, wc, stdout, all_ignores, sorted_dirs, idx,
          seen, results, file, file0, exit_code, errors, queries, mapping>>

Init ==
    /\ pc = "start"
    /\ path = None
    /\ recursive = FALSE
    /\ max_depth = 0
    /\ wc = NoWorld
    /\ stdout = None
    /\ all_ignores = <<>>
    /\ sorted_dirs = <<>>
    /\ idx = 0
    /\ seen = <<>>
    /\ results = <<>>
    /\ file0 \in OldFiles
    /\ file = file0
    /\ exit_code = -1
    /\ errors = 0
    /\ queries = 0
    /\ mapping = <<>>

\* the command line: convert PATH [-r] [--max-depth N]
Invoke ==
    /\ pc = "start"
    /\ \E p \in PathArgs, r \in BOOLEAN, md \in 0..MaxDepthArg :
          /\ path' = p
          /\ recursive' = r
          /\ max_depth' = md
    /\ pc' = "info"
    /\ UNCHANGED <<wc, stdout, all_ignores, sorted_dirs, idx, seen, results, file, file0, exit_code, errors, queries, mapping>>

\* the failed check without its return: the error is echoed, the run goes on
SvnInfoFails_NoReturn ==
    /\ pc = "info"
    /\ errors' = errors + 1
    /\ pc' = "collect"
    /\ UNCHANGED <<path, recursive, max_depth, wc, stdout, all_ignores, sorted_dirs, idx, seen, results, file, file0, exit_code, queries, mapping>>

\* "svn info" fails: the error is echoed and the command returns
SvnInfoFails ==
    /\ pc = "info"
    /\ errors' = errors + 1
    /\ exit_code' = 0
    /\ pc' = "done"
    /\ UNCHANGED <<path, recursive, max_depth, wc, stdout, all_ignores, sorted_dirs, idx, seen, results, file, file0, queries, mapping>>

SvnInfoOk ==
    /\ pc = "info"
    /\ pc' = "collect"
    /\ UNCHANGED <<path, recursive, max_depth, wc, stdout, all_ignores, sorted_dirs, idx, seen, results, file, file0, exit_code, errors, queries, mapping>>

\* process_directory, not recursive: one point query for the path itself
PointQuery ==
    /\ pc = "collect"
    /\ ~recursive
    /\ \E w \in Worlds, ok \in BOOLEAN :
          /\ wc' = IF ok THEN w ELSE NoWorld
          /\ stdout' = IF ok THEN SvnPropget(w) ELSE None
          /\ LET ignore_config == get_svn_ignore(stdout')
                 rel_path == rel_path_of(path, Abspath(path))
             IN results' = IF config_present(ignore_config)
                           THEN <<<<rel_path, ignore_config>>>>
                           ELSE <<>>
    /\ queries' = queries + 1
    /\ pc' = "collected"
    /\ UNCHANGED <<path, recursive, max_depth, all_ignores, sorted_dirs, idx, seen, file, file0, exit_code, errors, mapping>>

\* process_directory, recursive: the bulk query and the sort of its keys
BulkQuery ==
    /\ pc = "collect"
    /\ recursive
    /\ \E w \in Worlds, ok \in BOOLEAN :
          /\ wc' = IF ok THEN w ELSE NoWorld
          /\ stdout' = IF ok THEN SvnPropgetR(w, path) ELSE None
    /\ all_ignores' = get_all_svn_ignores(stdout')
    /\ sorted_dirs' = sorted_dirs_of(all_ignores')
    /\ idx' = 1
    /\ queries' = queries + 1
    /\ pc' = "loop"
    /\ UNCHANGED <<path, recursive, max_depth, seen, results, file, file0, exit_code, errors, mapping>>

\* one iteration of "for idx, d in enumerate(sorted_dirs, 1)"
ProcessDir ==
    /\ pc = "loop"
    /\ idx <= Len(sorted_dirs)
    /\ LET d == sorted_dirs[idx]
           base_path == Abspath(path)
           rel_path == rel_path_of(d, base_path)
           depth == depth_of(rel_path)
           by == skip_by(d, Dirname(d), base_path, all_ignores)
           ignore_config == DictGet(all_ignores, d)
           fate == IF depth_excluded(max_depth, depth) THEN "depth"
                   ELSE IF by # None THEN "skip"
                   ELSE IF config_present(ignore_config) THEN "emit"
                   ELSE "empty"
       IN /\ seen' = Append(seen, [d |-> d, rel_path |-> rel_path, depth |-> depth, fate |-> fate,
                                   by |-> IF fate = "skip" THEN by ELSE None])
          /\ results' = IF fate = "emit" THEN Append(results, <<rel_path, ignore_config>>) ELSE results
    /\ idx' = idx + 1
    /\ UNCHANGED <<pc, path, recursive, max_depth, wc, stdout, all_ignores, sorted_dirs, file, file0, exit_code, errors, queries, mapping>>

\* the loop is over: process_directory returns results
ReturnResults ==
    /\ pc = "loop"
    /\ idx > Len(sorted_dirs)
    /\ pc' = "collected"
    /\ UNCHANGED <<path, recursive, max_depth, wc, stdout, all_ignores, sorted_dirs, idx, seen, results, file, file0, exit_code, errors, queries, mapping>>

\* "if not ignore_configs: ... return"
NoConfigs ==
    /\ pc = "collected"
    /\ results = <<>>
    /\ exit_code' = 0
    /\ pc' = "done"
    /\ UNCHANGED <<path, recursive, max_depth, wc, stdout, all_ignores, sorted_dirs, idx, seen, results, file, file0, errors, queries, mapping>>

\* the output file opened for appending: the old content stays in front
WriteOutput_Append ==
    /\ pc = "collected"
    /\ results # <<>>
    /\ file' = (IF file = None THEN <<>> ELSE file) \o convert_to_gitignore(results)
    /\ exit_code' = 0
    /\ pc' = "done"
    /\ UNCHANGED <<path, recursive, max_depth, wc, stdout, all_ignores, sorted_dirs, idx, seen, results, file0, errors, queries, mapping>>

\* the rendered text replaces the content of the output file
WriteOutput ==
    /\ pc = "collected"
    /\ results # <<>>
    /\ file' = convert_to_gitignore(results)
    /\ exit_code' = 0
    /\ pc' = "done"
    /\ UNCHANGED <<path, recursive, max_depth, wc, stdout, all_ignores, sorted_dirs, idx, seen, results, file0, errors, queries, mapping>>

\* open(output_file, 'w') raises: the exception ends the process
WriteFails ==
    /\ pc = "collected"
    /\ results # <<>>
    /\ exit_code' = 1
    /\ pc' = "done"
    /\ UNCHANGED <<path, recursive, max_depth, wc, stdout, all_ignores, sorted_dirs, idx, seen, results, file, file0, errors, queries, mapping>>

Next ==
    \/ Invoke
    \/ SvnInfoFails
    \/ SvnInfoOk
    \/ PointQuery
    \/ BulkQuery
    \/ ProcessDir
    \/ ReturnResults
    \/ NoConfigs
    \/ WriteOutput
    \/ WriteFails

Spec == Init /\ [][Next]_vars

TypeOK ==
    /\ pc \in {"start", "info", "collect", "loop", "collected", "done"}
    /\ idx \in 0..(Len(Dirs) + 1)

(***************************************************************************)
(* convert_to_gitignore on its own, over bounded inputs                    *)
(***************************************************************************)
\* longest sequence of (path, pattern block) pairs tried
MaxPairs == 2

ConvPaths == { <<DOT>>, <<"a">>, <<"a", SEP, "b">> }

ConvBlocks ==
    { <<"x">>,
      <<"x", NL, HASH, "c", NL, NL, SP, "b", SP, NL>>,
      <<"*", DOT, "o", NL, "x">>,
      <<SEP, "x">>,
      <<SEP, SEP, "x">>,
      <<BSL, "x", BSL, BSL, "o">> }

ConvPairs == ConvPaths \X ConvBlocks

ConvInputs == UNION { [1..n -> ConvPairs] : n \in 0..MaxPairs }

InitConvert ==
    /\ pc = "conv_in"
    /\ results \in ConvInputs
    /\ file = None
    /\ file0 = None
    /\ path = None
    /\ recursive = FALSE
    /\ max_depth = 0
    /\ wc = NoWorld
    /\ stdout = None
    /\ all_ignores = <<>>
    /\ sorted_dirs = <<>>
    /\ idx = 0
    /\ seen = <<>>
    /\ exit_code = -1
    /\ errors = 0
    /\ queries = 0
    /\ mapping = <<>>

Render ==
    /\ pc = "conv_in"
    /\ file' = convert_to_gitignore(results)
    /\ pc' = "conv_out"
    /\ UNCHANGED <<path, recursive, max_depth, wc, stdout, all_ignores, sorted_dirs, idx, seen, results, file0, exit_code, errors, queries, mapping>>

NextConvert == Render

SpecConvert == InitConvert /\ [][NextConvert]_vars

(***************************************************************************)
(* get_all_svn_ignores on its own, over bounded inputs                     *)
(***************************************************************************)
\* most directories in a mapping, most pattern lines of a directory
MaxMapLen == 2
MaxPats == 2

ParseDirs == { <<SEP, "r">>, <<SEP, "r", SEP, "a">>, <<SEP, "r", SEP, "a", SP, DASH, SP, "b">> }

ParsePatterns == { <<"x">>, <<"*", DOT, "o">>, <<"a", SP, DASH, SP, "b">> }

PatLists == UNION { [1..n -> ParsePatterns] : n \in 1..MaxPats }

MapEntries == [dir : ParseDirs, pats : PatLists]

Mappings ==
    { m \in UNION { [1..n -> MapEntries] : n \in 1..MaxMapLen } :
        \A i, j \in 1..Len(m) : i # j => m[i].dir # m[j].dir }

\* the mapping in the "path - value" convention: "<dir> - <first pattern>",
\* then each further pattern on a line of its own
RECURSIVE WriteMapping(_)
WriteMapping(m) ==
    IF m = <<>> THEN <<>>
    ELSE Head(m).dir \o <<SP, DASH, SP>> \o Join(Head(m).pats, <<NL>>) \o <<NL>> \o WriteMapping(Tail(m))

InitParse ==
    /\ pc = "parse_in"
    /\ mapping \in Mappings
    /\ stdout = WriteMapping(mapping)
    /\ all_ignores = <<>>
    /\ results = <<>>
    /\ file = None
    /\ file0 = None
    /\ path = None
    /\ recursive = TRUE
    /\ max_depth = 0
    /\ wc = NoWorld
    /\ sorted_dirs = <<>>
    /\ idx = 0
    /\ seen = <<>>
    /\ exit_code = -1
    /\ errors = 0
    /\ queries = 0

Parse ==
    /\ pc = "parse_in"
    /\ all_ignores' = get_all_svn_ignores(stdout)
    /\ pc' = "parse_out"
    /\ UNCHANGED <<path, recursive, max_depth, wc, stdout, sorted_dirs, idx, seen, results, file, file0, exit_code, errors, queries, mapping>>

NextParse == Parse

SpecParse == InitParse /\ [][NextParse]_vars

(***************************************************************************)
(* The tree of the working copy, as used by the properties                 *)
(***************************************************************************)
\* parent of each directory of Dirs (0: the root has none), and its base name
DirParent == <<0, 1, 2, 3, 1>>
DirName == << <<DOT>>, <<"a">>, <<"b">>, <<"c">>, <<"b">> >>

RECURSIVE TreeDepth(_)
TreeDepth(i) == IF DirParent[i] = 0 THEN 0 ELSE 1 + TreeDepth(DirParent[i])

RECURSIVE Ancestors(_)
Ancestors(i) == IF DirParent[i] = 0 THEN {} ELSE {DirParent[i]} \cup Ancestors(DirParent[i])

Subtree(c) == { e \in DirIdx : e = c \/ c \in Ancestors(e) }

\* absolute and root-relative path of directory i
AbsName(i) == IF i = 1 THEN Cwd ELSE Cwd \o <<SEP>> \o Dirs[i]
RelName(i) == Dirs[i]

DirOf(d) == CHOOSE i \in DirIdx : AbsName(i) = d

Range(f) == { f[i] : i \in DOMAIN f }

ResultPaths == { results[k][1] : k \in 1..Len(results) }

Collected == pc \in {"collected", "done"} /\ errors = 0

\* the trimmed non-empty lines of a property value
PatternsOfValue(v) == IF v = None THEN {} ELSE { Strip(l) : l \in Range(SplitLines(v)) } \ {<<>>}

IsBlank(v) == v = None \/ Strip(v) = <<>>

\* the lines of a rendered text other than directory headers and blank lines
IsHeader(l) == Len(l) >= 2 /\ l[1] = HASH /\ l[Len(l)] = HeaderSuffix

PatternLines(text) == SelectSeq(SplitLines(text), LAMBDA l : l # <<>> /\ ~IsHeader(l))

(***************************************************************************)
(* Properties                                                              *)
(***************************************************************************)

\* C1: in recursive mode, when a directory d carries a pattern that matches
\* the base name of its child directory c, the result holds no entry for c
\* and no entry for any directory beneath c, whatever values they carry.
C1_PrunedSubtreeAbsent ==
    (pc = "done" /\ errors = 0 /\ recursive) =>
        \A d \in DirIdx, c \in DirIdx :
            (DirParent[c] = d /\ \E p \in PatternsOfValue(wc[d]) : Fnmatch(DirName[c], p))
                => \A e \in Subtree(c) : RelName(e) \notin ResultPaths

WithinDepth(i) == max_depth = 0 \/ TreeDepth(i) <= max_depth

\* C2: in recursive mode a directory is excluded on grounds of depth if and
\* only if max_depth > 0 and its depth in the tree (0 for the root) is
\* greater than max_depth; so no directory deeper than a positive max_depth
\* is in the result, and max_depth 0 excludes none by depth.
C2_DepthExclusion ==
    recursive =>
        /\ \A k \in 1..Len(seen) :
              (seen[k].fate = "depth") <=> (max_depth > 0 /\ TreeDepth(DirOf(seen[k].d)) > max_depth)
        /\ \A i \in DirIdx : RelName(i) \in ResultPaths => WithinDepth(i)

C2_Witness ==
    /\ pc = "done" /\ recursive /\ max_depth = 1
    /\ \E k \in 1..Len(seen) : seen[k].fate = "depth" /\ seen[k].depth = 2
    /\ \E k \in 1..Len(seen) : seen[k].fate = "emit" /\ seen[k].depth = 1

\* C4: a directory whose property is absent, empty or whitespace-only (or
\* whose query failed) has no entry in the result of process_directory in
\* either mode, the written file has no header for it, and it is never the
\* ancestor by which another directory is pruned.
C4_BlankNeverEmitted ==
    Collected =>
        \A i \in DirIdx :
            IsBlank(wc[i]) =>
                /\ RelName(i) \notin ResultPaths
                /\ \A k \in 1..Len(seen) : seen[k].by # AbsName(i)
                /\ (pc = "done" /\ exit_code = 0 /\ results # <<>>)
                      => (<<HASH, SP>> \o RelName(i) \o <<SP, HeaderSuffix>>) \notin Range(SplitLines(file))

C4_Witness ==
    /\ pc = "done" /\ recursive /\ exit_code = 0 /\ results # <<>>
    /\ \E i \in DirIdx : wc[i] = <<SP>> /\ DictHas(all_ignores, AbsName(i))
    /\ \E i \in DirIdx : wc[i] = <<>>
    /\ \E k \in 1..Len(seen) : seen[k].fate = "empty"

\* C5: when the working-copy check fails, the command reports an error and
\* stops there: no property query is made, nothing is traversed, and the
\* output file is as it was before the run (absent or with its old content).
C5_InvalidPathStops ==
    errors > 0 =>
        /\ pc = "done"
        /\ queries = 0
        /\ stdout = None
        /\ seen = <<>>
        /\ results = <<>>
        /\ file = file0

C5_Witness == pc = "done" /\ errors = 1 /\ file0 # None /\ file = file0

\* C6: when the working-copy check fails, the run ends with a non-zero exit
\* code.
C6_InvalidPathNonZeroExit == (pc = "done" /\ errors > 0) => exit_code # 0

\* C7 as stated: every run on a valid working copy that ends normally leaves
\* the output file holding exactly the text rendered from the collected
\* entries, also when no entry was collected.
C7_AlwaysOverwritten ==
    (pc = "done" /\ errors = 0 /\ exit_code = 0) => file = convert_to_gitignore(results)

\* C7 amended: a run on a valid working copy that ends normally leaves the
\* output file holding exactly the rendered text when at least one entry was
\* collected, and leaves the file as it was when none was collected.
C7_OverwrittenWhenCollected ==
    (pc = "done" /\ errors = 0 /\ exit_code = 0) =>
        IF results # <<>> THEN file = convert_to_gitignore(results) ELSE file = file0

C7_Witness ==
    /\ pc = "done" /\ errors = 0 /\ exit_code = 0
    /\ results # <<>>
    /\ file0 # None
    /\ file # file0

\* C10: in recursive mode the candidates are processed in nondecreasing
\* depth order, all of them, and a candidate within the depth limit with a
\* non-blank value is in the result if and only if no ancestor of it, from
\* its parent up to the root, has a pattern that matches the candidate's own
\* base name; whether an ancestor was itself pruned plays no part.
C10_EmittedIffNoAncestorMatches ==
    (Collected /\ recursive) =>
        /\ Len(seen) = Len(all_ignores)
        /\ \A j, k \in 1..Len(seen) :
              j < k => TreeDepth(DirOf(seen[j].d)) <= TreeDepth(DirOf(seen[k].d))
        /\ \A i \in DirIdx :
              (DictHas(all_ignores, AbsName(i)) /\ WithinDepth(i) /\ DictGet(all_ignores, AbsName(i)) # <<>>)
                 => (RelName(i) \in ResultPaths <=>
                        ~ \E a \in Ancestors(i) :
                             /\ DictHas(all_ignores, AbsName(a))
                             /\ \E p \in PatternsOfValue(DictGet(all_ignores, AbsName(a))) : Fnmatch(DirName[i], p))

C10_Witness ==
    /\ pc = "done" /\ recursive
    /\ \E j, k \in 1..Len(seen) :
          /\ seen[j].fate = "skip"
          /\ seen[k].fate = "emit"
          /\ DirParent[DirOf(seen[k].d)] = DirOf(seen[j].d)
    /\ \E k \in 1..Len(seen) :
          /\ seen[k].fate = "skip"
          /\ seen[k].by = Cwd
          /\ seen[k].depth >= 2
          /\ DictHas(all_ignores, Dirname(seen[k].d))

\* the text s with every backslash turned into a slash and every run of
\* slashes collapsed to one slash
RECURSIVE CollapseSlashes(_)
CollapseSlashes(s) ==
    IF Len(s) < 2 THEN s
    ELSE IF s[1] = SEP /\ s[2] = SEP THEN CollapseSlashes(Tail(s))
    ELSE <<Head(s)>> \o CollapseSlashes(Tail(s))

SlashNormalized(s) == CollapseSlashes([i \in 1..Len(s) |-> IF s[i] = BSL THEN SEP ELSE s[i]])

RECURSIVE ExpectedLines(_)
ExpectedLines(cfgs) ==
    IF cfgs = <<>> THEN <<>>
    ELSE LET d == Head(cfgs)[1]
             trimmed == [i \in 1..Len(Split(Head(cfgs)[2], NL)) |-> Strip(Split(Head(cfgs)[2], NL)[i])]
             kept == SelectSeq(trimmed, LAMBDA p : p # <<>> /\ Head(p) # HASH)
         IN [i \in 1..Len(kept) |-> IF d = <<DOT>> THEN kept[i] ELSE SlashNormalized(d \o <<SEP>> \o kept[i])]
            \o ExpectedLines(Tail(cfgs))

\* C3: the pattern lines of the text returned by convert_to_gitignore are,
\* in input order and without sorting or deduplication, the trimmed
\* non-empty non-# lines of each pair, as p for the path "." and as the
\* slash-normalized d/p for another path d.
C3_PatternLinesInOrder ==
    pc = "conv_out" => PatternLines(file) = ExpectedLines(results)

HasDoubledSlash(l) == \E i \in 1..(Len(l) - 1) : l[i] = SEP /\ l[i + 1] = SEP

\* C8: for non-root paths, no pattern line emitted by convert_to_gitignore
\* contains a backslash or a doubled slash.
C8_NoBackslashNoDoubledSlash ==
    (pc = "conv_out" /\ \A k \in 1..Len(results) : results[k][1] # <<DOT>>) =>
        \A l \in Range(PatternLines(file)) : BSL \notin Range(l) /\ ~HasDoubledSlash(l)

\* C9: the bulk output written from a mapping of directories to pattern
\* lines parses back to exactly that mapping: one key per directory, whose
\* value is the directory's pattern lines in order.
C9_BulkRoundTrip ==
    pc = "parse_out" =>
        /\ Len(all_ignores) = Len(mapping)
        /\ \A i \in 1..Len(mapping) :
              /\ DictHas(all_ignores, mapping[i].dir)
              /\ DictGet(all_ignores, mapping[i].dir) = Join(mapping[i].pats, <<NL>>)

====
